---- MODULE Spec2Model ----
(***************************************************************************)
(* High Society (impcarr/cardgames): the auction engine of                 *)
(* high_society.py, the Player bid engine of player.py and the card hand   *)
(* of auction_card.py.                                                     *)
(*                                                                         *)
(* Money is counted in the game's own units (1000, 2000, ...).  A Python   *)
(* list is a sequence; a player is the index it has in the player list     *)
(* right after construction (the constructor shuffles the list, the        *)
(* players are otherwise alike).                                           *)
(***************************************************************************)
EXTENDS Integers, Sequences, FiniteSets, Bags, TLC

\* ---------------------------------------------------------------- bounds
\* A modelled game has one to NumPlayers players.
NumPlayers == 3
\* Each player starts with the first NumDenoms money cards of the default funds.
NumDenoms == 2
\* A funds list handed to a player on its own (custom_funds) has at most
\* MaxFundsLen money cards.
MaxFundsLen == 3

\* ------------------------------------------------------ program constants
\* a game length above the number of multiplier cards of the deck
DEFAULT_GAME_LENGTH_five == 4 + 1

DEFAULT_GAME_LENGTH == 4

\* the pass sentinel, [-1] in the source
PASS == <<-1>>

\* Player.__init__: the standard money cards
DefaultFunds == <<1000, 2000, 3000, 4000, 6000, 8000, 10000, 12000, 15000, 20000, 25000>>

\* ------------------------------------------------------------ list helpers
RECURSIVE SumSeq(_)
\* Python's sum() of a list of integers
SumSeq(s) == IF s = <<>> THEN 0 ELSE Head(s) + SumSeq(Tail(s))

\* list.count(x)
Count(x, s) == Cardinality({i \in 1..Len(s) : s[i] = x})

\* the set of values of a list
Elems(s) == {s[i] : i \in 1..Len(s)}

\* the list as a multiset
BagOf(s) == [x \in Elems(s) |-> Count(x, s)]

\* index of the first occurrence of x in s (x occurs in s)
FirstIndex(x, s) == CHOOSE i \in 1..Len(s) : s[i] = x /\ \A j \in 1..(i - 1) : s[j] # x

\* the list without its element at index i
DropAt(s, i) == SubSeq(s, 1, i - 1) \o SubSeq(s, i + 1, Len(s))

\* list.remove(x) taken for list.pop(): the last element goes
ListRemove_pop(s, x) == SubSeq(s, 1, Len(s) - 1)

RECURSIVE ListRemove_every(_, _)
\* list.remove(x) taken for a filter: every occurrence goes
ListRemove_every(s, x) ==
    IF s = <<>> THEN <<>>
    ELSE (IF Head(s) = x THEN <<>> ELSE <<Head(s)>>) \o ListRemove_every(Tail(s), x)

\* list.remove(x) when x occurs in s: the first occurrence goes
ListRemove(s, x) == DropAt(s, FirstIndex(x, s))

\* ------------------------------------------------------------------ cards
\* A card's value is the rational value/scale (Scandale is 1/2).
LuxuryCard(v) == [type |-> "Luxury", value |-> v, scale |-> 1]

MultiplierCard(v, d) == [type |-> "Multiplier", value |-> v, scale |-> d]

FauxPasCard == [type |-> "Faux Pas", value |-> 0, scale |-> 1]

\* PasseCard stores -abs(value)
PasseCard(v) == [type |-> "Passe", value |-> (IF v < 0 THEN v ELSE 0 - v), scale |-> 1]

\* is_end_game with the multiplier below 1 (Scandale) leaving _end_game unset
is_end_game_not_disgrace(c) == c.type = "Multiplier" /\ ~(c.value < c.scale)

is_end_game(c) == c.type = "Multiplier"

\* is_disgrace with FauxPasCard leaving _disgrace unset
is_disgrace_faux_pas_unset(c) ==
    \/ c.type = "Multiplier" /\ c.value < c.scale
    \/ c.type = "Passe"

is_disgrace(c) ==
    \/ c.type = "Multiplier" /\ c.value < c.scale
    \/ c.type = "Faux Pas"
    \/ c.type = "Passe"

is_theft(c) == c.type = "Faux Pas"

is_multiplier(c) == c.type = "Multiplier"

\* The kinds of card of the default deck that the model deals: the two
\* disgrace cards, the two kinds of multiplier and the luxury cards One, Two.
DeckCards ==
    << FauxPasCard, PasseCard(-5), MultiplierCard(1, 2), MultiplierCard(2, 1),
       LuxuryCard(1), LuxuryCard(2) >>

\* ------------------------------------------------------------------- hand
has_luxury_cards(cards) == \E i \in 1..Len(cards) : cards[i].type = "Luxury"

has_faux_pas_cards(cards) == \E i \in 1..Len(cards) : cards[i].type = "Faux Pas"

\* removes the first Faux Pas card of the hand
remove_faux_pas_card(cards) ==
    LET i == CHOOSE k \in 1..Len(cards) :
                 /\ cards[k].type = "Faux Pas"
                 /\ \A j \in 1..(k - 1) : cards[j].type # "Faux Pas"
    IN  DropAt(cards, i)

\* remove_smallest_luxury_card taking the first luxury card, whatever its value
remove_first_luxury_card(cards) ==
    LET i == CHOOSE k \in 1..Len(cards) :
                 /\ cards[k].type = "Luxury"
                 /\ \A j \in 1..(k - 1) : cards[j].type # "Luxury"
    IN  DropAt(cards, i)

\* min(luxury_cards, key=value) is the first luxury card of minimal value
remove_smallest_luxury_card(cards) ==
    LET lux == {k \in 1..Len(cards) : cards[k].type = "Luxury"}
        i == CHOOSE k \in lux :
                 /\ \A j \in lux : cards[k].value <= cards[j].value
                 /\ \A j \in lux : j < k => cards[j].value > cards[k].value
    IN  DropAt(cards, i)

\* win_card whose second branch drops the Faux Pas card and keeps the luxury card
win_card_luxury_kept(cards, card) ==
    IF card.type = "Faux Pas"
    THEN IF has_luxury_cards(cards)
         THEN remove_smallest_luxury_card(cards)
         ELSE Append(cards, card)
    ELSE IF has_faux_pas_cards(cards) /\ card.type = "Luxury"
         THEN Append(remove_faux_pas_card(cards), card)
         ELSE Append(cards, card)

\* win_card whose first branch takes the luxury card and keeps the Faux Pas card
win_card_faux_pas_kept(cards, card) ==
    IF card.type = "Faux Pas"
    THEN IF has_luxury_cards(cards)
         THEN Append(remove_smallest_luxury_card(cards), card)
         ELSE Append(cards, card)
    ELSE IF has_faux_pas_cards(cards) /\ card.type = "Luxury"
         THEN remove_faux_pas_card(cards)
         ELSE Append(cards, card)

\* AuctionCardHand.win_card
win_card(cards, card) ==
    IF card.type = "Faux Pas"
    THEN IF has_luxury_cards(cards)
         THEN remove_smallest_luxury_card(cards)
         ELSE Append(cards, card)
    ELSE IF has_faux_pas_cards(cards) /\ card.type = "Luxury"
         THEN remove_faux_pas_card(cards)
         ELSE Append(cards, card)

\* A score is the rational num/den, den > 0.
Rat(n, d) == [num |-> n, den |-> d]

RECURSIVE base_score_luxury_only(_)
\* the base score summed over the Luxury cards alone
base_score_luxury_only(cards) ==
    IF cards = <<>> THEN Rat(0, 1)
    ELSE LET c == Head(cards)
             r == base_score_luxury_only(Tail(cards))
         IN  IF c.type = "Luxury"
             THEN Rat(c.value * r.den + r.num * c.scale, c.scale * r.den)
             ELSE r

RECURSIVE base_score(_)
\* get_score: the sum of card.value over the Luxury and Passe cards of the hand
base_score(cards) ==
    IF cards = <<>> THEN Rat(0, 1)
    ELSE LET c == Head(cards)
             r == base_score(Tail(cards))
         IN  IF c.type = "Luxury" \/ c.type = "Passe"
             THEN Rat(c.value * r.den + r.num * c.scale, c.scale * r.den)
             ELSE r

RECURSIVE MultLoop(_, _)
\* get_score: the loop mult *= card.value over the multiplier cards of the hand
MultLoop(cards, mult) ==
    IF cards = <<>> THEN mult
    ELSE LET c == Head(cards)
         IN  MultLoop(Tail(cards),
                      IF is_multiplier(c) THEN Rat(mult.num * c.value, mult.den * c.scale)
                      ELSE mult)

\* AuctionCardHand.get_score
get_score(cards) ==
    LET base == base_score(cards)
        mult == MultLoop(cards, Rat(1, 1))
    IN  Rat(base.num * mult.num, base.den * mult.den)

\* ----------------------------------------------------------------- player
\* Player.total_money of a funds list
total_money(fs) == SumSeq(fs)

\* bid_is_valid comparing the sums with < where the source has <=
bid_is_valid_equal_sum(fs, b, highest) ==
    IF b = PASS THEN TRUE
    ELSE IF SumSeq(b) < SumSeq(highest) THEN FALSE
    ELSE \A d \in Elems(b) : ~(Count(d, fs) < Count(d, b))

\* Player.bid_is_valid(bid, current_highest_bid) of a player holding funds fs
bid_is_valid(fs, b, highest) ==
    IF b = PASS THEN TRUE
    ELSE IF SumSeq(b) <= SumSeq(highest) THEN FALSE
    ELSE \A d \in Elems(b) : ~(Count(d, fs) < Count(d, b))

RECURSIVE Keys(_)
\* the keys of Counter(s), in order of first occurrence
Keys(s) ==
    IF s = <<>> THEN <<>>
    ELSE LET k == Keys(SubSeq(s, 1, Len(s) - 1))
             x == s[Len(s)]
         IN  IF x \in Elems(k) THEN k ELSE Append(k, x)

RECURSIVE Repeat(_, _)
\* n copies of x
Repeat(x, n) == IF n <= 0 THEN <<>> ELSE <<x>> \o Repeat(x, n - 1)

RECURSIVE CounterElements(_, _, _)
\* list((Counter(fs) - Counter(b)).elements()), along the keys ks of Counter(fs)
CounterElements(ks, fs, b) ==
    IF ks = <<>> THEN <<>>
    ELSE Repeat(Head(ks), Count(Head(ks), fs) - Count(Head(ks), b))
             \o CounterElements(Tail(ks), fs, b)

\* Player.get_available_raises
get_available_raises(fs, b) ==
    CHOOSE elements \in {CounterElements(ks, fs, b) : ks \in {Keys(fs)}} : TRUE

RECURSIVE Prefixed(_, _)
\* every list of ss with x put in front
Prefixed(x, ss) ==
    IF ss = <<>> THEN <<>> ELSE << <<x>> \o Head(ss) >> \o Prefixed(x, Tail(ss))

RECURSIVE combinations(_, _)
\* itertools.combinations(s, n), in the order itertools yields them
combinations(s, n) ==
    IF n = 0 THEN << <<>> >>
    ELSE IF Len(s) < n THEN <<>>
    ELSE CHOOSE combos \in
             {Prefixed(Head(s), with) \o combinations(Tail(s), n) :
                 with \in {combinations(Tail(s), n - 1)}} : TRUE

RECURSIVE FilterAbove_or_equal(_, _)
\* the filter of get_valid_bids with >= where the source has >
FilterAbove_or_equal(ss, m) ==
    IF ss = <<>> THEN <<>>
    ELSE (IF SumSeq(Head(ss)) >= m THEN <<Head(ss)>> ELSE <<>>)
             \o FilterAbove_or_equal(Tail(ss), m)

RECURSIVE FilterAbove(_, _)
\* the lists of ss whose sum is above m, in order
FilterAbove(ss, m) ==
    IF ss = <<>> THEN <<>>
    ELSE (IF SumSeq(Head(ss)) > m THEN <<Head(ss)>> ELSE <<>>) \o FilterAbove(Tail(ss), m)

RECURSIVE CombosAbove_short(_, _, _)
\* the loop over length of get_valid_bids ending at len(s) - 1
CombosAbove_short(s, n, m) ==
    IF n > Len(s) - 1 THEN <<>>
    ELSE CHOOSE combos \in
             {FilterAbove(c, m) \o CombosAbove_short(s, n + 1, m) :
                 c \in {combinations(s, n)}} : TRUE

RECURSIVE CombosAbove(_, _, _)
\* the loop over length in range(n, len(s) + 1) of get_valid_bids
CombosAbove(s, n, m) ==
    IF n > Len(s) THEN <<>>
    ELSE CHOOSE combos \in
             {FilterAbove(c, m) \o CombosAbove(s, n + 1, m) : c \in {combinations(s, n)}} : TRUE

RECURSIVE InsertBySum(_, _)
\* x put into the sum-sorted list ss behind every list of at most its sum
InsertBySum(ss, x) ==
    IF ss = <<>> THEN <<x>>
    ELSE IF SumSeq(Head(ss)) <= SumSeq(x) THEN <<Head(ss)>> \o InsertBySum(Tail(ss), x)
    ELSE <<x>> \o ss

\* get_valid_bids returning its candidates as enumerated, not sorted
SortedBySum_unsorted(ss) == ss

RECURSIVE SortedBySum(_)
\* sorted(ss, key=sum): stable
SortedBySum(ss) ==
    IF ss = <<>> THEN <<>>
    ELSE CHOOSE sorted \in
             {InsertBySum(front, ss[Len(ss)]) :
                 front \in {SortedBySum(SubSeq(ss, 1, Len(ss) - 1))}} : TRUE

\* get_valid_bids taking any raise, whatever the highest bid
get_valid_bids_any_raise(fs, b, highest) ==
    LET raise_minimum == 0
        funds_available == get_available_raises(fs, b)
    IN  CHOOSE valid_bids \in
            {SortedBySum(c) :
                c \in {CombosAbove(fa, 1, raise_minimum) : fa \in {funds_available}}} : TRUE

\* Player.get_valid_bids(current_highest_bid) of a player with funds fs and bid b
get_valid_bids(fs, b, highest) ==
    LET raise_minimum == SumSeq(highest) - SumSeq(b)
        funds_available == get_available_raises(fs, b)
    IN  CHOOSE valid_bids \in
            {SortedBySum(c) :
                c \in {CombosAbove(fa, 1, raise_minimum) : fa \in {funds_available}}} : TRUE

\* The outcome of a Player method: the funds and bid it leaves, what it returns
\* and the error it raises ("none" when it returns).
Outcome(fs, b, r, e) == [funds |-> fs, bid |-> b, ret |-> r, err |-> e]

\* the bid setter
set_bid(fs, b, new) ==
    IF ~bid_is_valid(fs, new, <<>>)
    THEN Outcome(fs, b, <<>>, "ValueError")
    ELSE Outcome(fs, new, <<>>, "none")

\* Player.pass_bid
pass_bid(fs, b) == set_bid(fs, b, PASS)

\* reset_bid leaving a pass sentinel where it is
reset_bid_keeps_pass(fs, b) == Outcome(fs, IF b = PASS THEN b ELSE <<>>, <<>>, "none")

\* Player.reset_bid
reset_bid(fs, b) == Outcome(fs, <<>>, <<>>, "none")

\* Player.raise_bid(raise_amount)
raise_bid(fs, b, raise_amount) ==
    LET raised_bid == b \o raise_amount
    IN  IF ~bid_is_valid(fs, raised_bid, <<>>)
        THEN Outcome(fs, b, <<>>, "ValueError")
        ELSE set_bid(fs, b, raised_bid)

\* the loop of spend_bid leaving after its first card
RemoveAll_first_only(fs, b) ==
    IF b = <<>> THEN [funds |-> fs, err |-> "none"]
    ELSE IF Head(b) \notin Elems(fs) THEN [funds |-> fs, err |-> "ValueError"]
    ELSE [funds |-> ListRemove(fs, Head(b)), err |-> "none"]

RECURSIVE RemoveAll(_, _)
\* the loop of spend_bid: funds.remove(card) for each card of the bid, up to
\* the first card that is not there (list.remove raises ValueError)
RemoveAll(fs, b) ==
    IF b = <<>> THEN [funds |-> fs, err |-> "none"]
    ELSE IF Head(b) \notin Elems(fs) THEN [funds |-> fs, err |-> "ValueError"]
    ELSE RemoveAll(ListRemove(fs, Head(b)), Tail(b))

\* spend_bid resetting the bid without taking its cards out of the funds
spend_bid_keeps_funds(fs, b) ==
    LET r == RemoveAll(fs, b)
    IN  IF r.err = "none"
        THEN Outcome(fs, <<>>, <<>>, "none")
        ELSE Outcome(r.funds, b, <<>>, r.err)

\* Player.spend_bid
spend_bid(fs, b) ==
    LET r == RemoveAll(fs, b)
    IN  IF r.err = "none"
        THEN Outcome(r.funds, <<>>, <<>>, "none")
        ELSE Outcome(r.funds, b, <<>>, r.err)

\* RandomPlayer.bid_or_pass_randomly: every outcome the random source allows
bid_or_pass_randomly(fs, b, highest) ==
    IF b = PASS THEN {Outcome(fs, b, b, "none")}
    ELSE IF SumSeq(highest) >= total_money(fs)
    THEN {LET o == pass_bid(fs, b) IN [o EXCEPT !.ret = o.bid]}
    ELSE {LET o == pass_bid(fs, b) IN [o EXCEPT !.ret = o.bid]}
         \cup
         UNION {IF valid_bids = <<>>
                THEN {Outcome(fs, b, <<>>, "IndexError")}
                ELSE {LET o == raise_bid(fs, b, valid_bids[i]) IN [o EXCEPT !.ret = o.bid] :
                        i \in 1..Len(valid_bids)} :
                valid_bids \in {get_valid_bids(fs, b, highest)}}

\* ------------------------------------------------------------------ state
VARIABLES
    players,         \* HighSociety._players: the ring, its front is the current player
    funds,           \* Player._funds of each player
    bid,             \* Player._bid of each player
    cards_won,       \* Player._cards_won.cards of each player
    passed_players,  \* AuctionState.passed_players
    current_bid,     \* AuctionState.current_bid
    deck,            \* the cards on top of AuctionCardDeck.cards, front first
    current_card,    \* HighSociety._current_card
    game_progress,   \* HighSociety._game_progress
    pc,              \* where play_sample_game / hold_auction stands
    err,             \* the exception that ended the run, "none" while it runs
    before,          \* history: funds, hands, ring and bids when the auction started,
                     \* and the number of auctions started so far
    bidders,         \* history: the players who have placed a bid in this auction
    resolved,        \* history: how the last auction was resolved
    call             \* history: the method call observed last, with its arguments,
                     \* the state it found and what it answered

vars == << players, funds, bid, cards_won, passed_players, current_bid, deck,
           current_card, game_progress, pc, err, before, bidders, resolved, call >>

Players == 1..NumPlayers

\* no card drawn yet
NoCard == [type |-> "None", value |-> 0, scale |-> 1]

NotResolved ==
    [mode |-> "none", winner |-> 0, card |-> NoCard, received |-> {}, spenders |-> {},
     bids |-> <<>>, passed |-> {}]

NoCall ==
    [op |-> "none", arg |-> <<>>, highest |-> <<>>, funds |-> <<>>, bid |-> <<>>,
     err |-> "none", ok |-> FALSE, list |-> <<>>, ret |-> <<>>, card |-> NoCard,
     hand |-> <<>>, score |-> [num |-> 0, den |-> 1], ring |-> <<>>, passed |-> {},
     winner |-> 0, progress |-> 0]

\* the lists of n different indices of 1..m
Arrangements(m, n) ==
    {s \in [1..n -> 1..m] : \A i, j \in 1..n : i # j => s[i] # s[j]}

\* The model follows a game over the two cards on top of the shuffled deck.
DeckTop == 1..2

\* AuctionCardDeck.shuffle, seen from the top: any two cards of the deck, in
\* any order
ShuffledTops ==
    {[i \in DeckTop |-> DeckCards[s[i]]] :
        s \in Arrangements(Len(DeckCards), Cardinality(DeckTop))}

\* HighSociety.__init__(player_names) with the names of one to NumPlayers players
Init ==
    /\ \E n \in Players :
         /\ players = [i \in 1..n |-> i]
         /\ funds = [p \in 1..n |-> SubSeq(DefaultFunds, 1, NumDenoms)]
         /\ bid = [p \in 1..n |-> <<>>]
         /\ cards_won = [p \in 1..n |-> <<>>]
    /\ passed_players = {}
    /\ current_bid = <<>>
    /\ deck \in ShuffledTops
    /\ current_card = NoCard
    /\ game_progress = 0
    /\ pc = "draw"
    /\ err = "none"
    /\ before = [funds |-> funds, cards_won |-> cards_won, players |-> players, bid |-> bid,
                auctions |-> 0]
    /\ bidders = {}
    /\ resolved = NotResolved
    /\ call = NoCall

RECURSIVE RotateLoop_short(_, _, _)
\* the while loop of _next_player giving up one rotation early
RotateLoop_short(ps, passed, rotations) ==
    IF ~(rotations < Len(ps) - 1)
    THEN [players |-> ps, err |-> "NoActivePlayerError"]
    ELSE LET r == Tail(ps) \o <<Head(ps)>>
         IN  IF r[1] \notin passed
             THEN [players |-> r, err |-> "none"]
             ELSE RotateLoop_short(r, passed, rotations + 1)

RECURSIVE RotateLoop(_, _, _)
\* the while loop of _next_player
RotateLoop(ps, passed, rotations) ==
    IF ~(rotations < Len(ps))
    THEN [players |-> ps, err |-> "NoActivePlayerError"]
    ELSE LET r == Tail(ps) \o <<Head(ps)>>
         IN  IF r[1] \notin passed
             THEN [players |-> r, err |-> "none"]
             ELSE RotateLoop(r, passed, rotations + 1)

\* _next_player rotating once, whoever comes to the front
next_player_no_skip(ps, passed) ==
    IF ps = <<>> THEN [players |-> ps, err |-> "NoActivePlayerError"]
    ELSE IF Elems(ps) \subseteq passed THEN [players |-> ps, err |-> "NoActivePlayerError"]
    ELSE [players |-> Tail(ps) \o <<Head(ps)>>, err |-> "none"]

\* _next_player returning at once when the front player has not passed
next_player_keep_front(ps, passed) ==
    IF ps = <<>> THEN [players |-> ps, err |-> "NoActivePlayerError"]
    ELSE IF Elems(ps) \subseteq passed THEN [players |-> ps, err |-> "NoActivePlayerError"]
    ELSE IF ps[1] \notin passed THEN [players |-> ps, err |-> "none"]
    ELSE RotateLoop(ps, passed, 0)

\* _next_player rotating once before it looks at the passed set
next_player_rotate_first(ps, passed) ==
    IF ps = <<>> THEN [players |-> ps, err |-> "NoActivePlayerError"]
    ELSE LET r == Tail(ps) \o <<Head(ps)>>
         IN  IF Elems(r) \subseteq passed
             THEN [players |-> r, err |-> "NoActivePlayerError"]
             ELSE IF r[1] \notin passed THEN [players |-> r, err |-> "none"]
             ELSE RotateLoop(r, passed, 1)

\* HighSociety._next_player
next_player(ps, passed) ==
    IF ps = <<>> THEN [players |-> ps, err |-> "NoActivePlayerError"]
    ELSE IF Elems(ps) \subseteq passed THEN [players |-> ps, err |-> "NoActivePlayerError"]
    ELSE RotateLoop(ps, passed, 0)

\* play_sample_game's loop head: HighSociety.draw_new_auction_card
DrawNewAuctionCard ==
    /\ pc = "draw"
    /\ deck # <<>>
    /\ current_card' = Head(deck)
    /\ deck' = Tail(deck)
    /\ game_progress' = IF is_end_game(Head(deck)) THEN game_progress + 1 ELSE game_progress
    /\ pc' = IF game_progress' = DEFAULT_GAME_LENGTH THEN "game_over" ELSE "hold_auction"
    /\ call' = [NoCall EXCEPT !.op = "draw_new_auction_card", !.card = Head(deck),
                              !.progress = game_progress,
                              !.ok = (game_progress' # DEFAULT_GAME_LENGTH)]
    /\ UNCHANGED << players, funds, bid, cards_won, passed_players, current_bid, err,
                    before, bidders, resolved >>

\* HighSociety.hold_auction up to the loop: reset_auction and the choice of mode
HoldAuction ==
    /\ pc = "hold_auction"
    /\ passed_players' = {}
    /\ current_bid' = <<>>
    /\ bid' = [p \in DOMAIN bid |-> reset_bid(funds[p], bid[p]).bid]
    /\ pc' = IF is_disgrace(current_card) THEN "avoid" ELSE "win"
    /\ before' = [funds |-> funds, cards_won |-> cards_won, players |-> players,
                  bid |-> bid, auctions |-> before.auctions + 1]
    /\ bidders' = {}
    /\ resolved' = NotResolved
    /\ UNCHANGED << players, funds, cards_won, deck, current_card, game_progress, err,
                    call >>

\* the loop condition of hold_auction_to_win asking the last player as well
win_loop_continues_to_last(passed, ps) == Cardinality(passed) < Len(ps)

\* the loop condition of hold_auction_to_win
win_loop_continues(passed, ps) == Cardinality(passed) < Len(ps) - 1

\* the loop condition of hold_auction_to_avoid not looking at the passed set
avoid_loop_continues_always(passed) == Cardinality(passed) >= 0

\* the loop condition of hold_auction_to_avoid
avoid_loop_continues(passed) == Cardinality(passed) = 0

\* One pass of the while loop of hold_auction_to_win: the current player decides,
\* the pass or the bid is recorded, the ring moves on.
WinTurn ==
    /\ pc = "win"
    /\ win_loop_continues(passed_players, players)
    /\ LET p == players[1]
       IN  \E o \in bid_or_pass_randomly(funds[p], bid[p], current_bid) :
             /\ bid' = [bid EXCEPT ![p] = o.bid]
             /\ bidders' = IF o.err = "none" /\ o.ret # PASS THEN bidders \cup {p} ELSE bidders
             /\ IF o.err # "none"
                THEN /\ pc' = "aborted"
                     /\ err' = o.err
                     /\ UNCHANGED << players, passed_players, current_bid >>
                ELSE /\ passed_players' =
                            IF o.ret = PASS THEN passed_players \cup {p} ELSE passed_players
                     /\ current_bid' = IF o.ret = PASS THEN current_bid ELSE o.ret
                     /\ LET np == next_player(players, passed_players')
                        IN  /\ players' = np.players
                            /\ err' = np.err
                            /\ pc' = IF np.err = "none" THEN "win" ELSE "aborted"
    /\ UNCHANGED << funds, cards_won, deck, current_card, game_progress, before, resolved,
                    call >>

\* hold_auction_to_win after its loop: the current player wins the card and pays
WinResolve ==
    /\ pc = "win"
    /\ ~win_loop_continues(passed_players, players)
    /\ LET winner == players[1]
           o == spend_bid(funds[winner], bid[winner])
       IN  /\ cards_won' = [cards_won EXCEPT ![winner] = win_card(@, current_card)]
           /\ funds' = [funds EXCEPT ![winner] = o.funds]
           /\ bid' = [bid EXCEPT ![winner] = o.bid]
           /\ err' = o.err
           /\ pc' = IF o.err = "none" THEN "draw" ELSE "aborted"
           /\ resolved' = [mode |-> "win", winner |-> winner, card |-> current_card,
                           received |-> {winner}, spenders |-> {winner}, bids |-> bid,
                           passed |-> passed_players]
    /\ UNCHANGED << players, passed_players, current_bid, deck, current_card,
                    game_progress, before, bidders, call >>

\* the while loop of hold_auction_to_avoid moving the ring on after a pass too
AvoidTurn_advance_on_pass ==
    /\ pc = "avoid"
    /\ avoid_loop_continues(passed_players)
    /\ LET p == players[1]
       IN  \E o \in bid_or_pass_randomly(funds[p], bid[p], current_bid) :
             /\ bid' = [bid EXCEPT ![p] = o.bid]
             /\ bidders' = IF o.err = "none" /\ o.ret # PASS THEN bidders \cup {p} ELSE bidders
             /\ IF o.err # "none"
                THEN /\ pc' = "aborted"
                     /\ err' = o.err
                     /\ UNCHANGED << players, passed_players, current_bid >>
                ELSE /\ passed_players' =
                            IF o.ret = PASS THEN passed_players \cup {p} ELSE passed_players
                     /\ current_bid' = IF o.ret = PASS THEN current_bid ELSE o.ret
                     /\ LET np == next_player(players, passed_players)
                        IN  /\ players' = np.players
                            /\ err' = np.err
                            /\ pc' = IF np.err = "none" THEN "avoid" ELSE "aborted"
    /\ UNCHANGED << funds, cards_won, deck, current_card, game_progress, before, resolved,
                    call >>

\* One pass of the while loop of hold_auction_to_avoid: the ring moves on after
\* a bid only.
AvoidTurn ==
    /\ pc = "avoid"
    /\ avoid_loop_continues(passed_players)
    /\ LET p == players[1]
       IN  \E o \in bid_or_pass_randomly(funds[p], bid[p], current_bid) :
             /\ bid' = [bid EXCEPT ![p] = o.bid]
             /\ bidders' = IF o.err = "none" /\ o.ret # PASS THEN bidders \cup {p} ELSE bidders
             /\ IF o.err # "none"
                THEN /\ pc' = "aborted"
                     /\ err' = o.err
                     /\ UNCHANGED << players, passed_players, current_bid >>
                ELSE IF o.ret = PASS
                THEN /\ passed_players' = passed_players \cup {p}
                     /\ UNCHANGED << players, current_bid, pc, err >>
                ELSE /\ current_bid' = o.ret
                     /\ LET np == next_player(players, passed_players)
                        IN  /\ players' = np.players
                            /\ err' = np.err
                            /\ pc' = IF np.err = "none" THEN "avoid" ELSE "aborted"
                     /\ UNCHANGED passed_players
    /\ UNCHANGED << funds, cards_won, deck, current_card, game_progress, before, resolved,
                    call >>

RECURSIVE SpendEach_winner_too(_, _, _, _)
\* the for loop that ends hold_auction_to_avoid without its test on the winner
SpendEach_winner_too(ps, winner, fs, bs) ==
    IF ps = <<>> THEN [funds |-> fs, bid |-> bs, err |-> "none"]
    ELSE LET p == Head(ps)
         IN  CHOOSE spent \in
               {LET fs2 == [fs EXCEPT ![p] = o.funds]
                    bs2 == [bs EXCEPT ![p] = o.bid]
                IN  IF o.err # "none"
                    THEN [funds |-> fs2, bid |-> bs2, err |-> o.err]
                    ELSE SpendEach_winner_too(Tail(ps), winner, fs2, bs2) :
                o \in {spend_bid(fs[p], bs[p])}} : TRUE

RECURSIVE SpendEach(_, _, _, _)
\* the for loop that ends hold_auction_to_avoid, over the players ps in ring
\* order: everyone but the winner spends; the loop ends at the first error
SpendEach(ps, winner, fs, bs) ==
    IF ps = <<>> THEN [funds |-> fs, bid |-> bs, err |-> "none"]
    ELSE IF Head(ps) = winner THEN SpendEach(Tail(ps), winner, fs, bs)
    ELSE LET p == Head(ps)
         IN  CHOOSE spent \in
               {LET fs2 == [fs EXCEPT ![p] = o.funds]
                    bs2 == [bs EXCEPT ![p] = o.bid]
                IN  IF o.err # "none"
                    THEN [funds |-> fs2, bid |-> bs2, err |-> o.err]
                    ELSE SpendEach(Tail(ps), winner, fs2, bs2) :
                o \in {spend_bid(fs[p], bs[p])}} : TRUE

\* hold_auction_to_avoid after its loop: the player who passed takes the card,
\* everyone else pays
AvoidResolve ==
    /\ pc = "avoid"
    /\ ~avoid_loop_continues(passed_players)
    /\ \E winner \in passed_players :
         \E o \in {SpendEach(players, winner, funds, bid)} :
             /\ passed_players' = passed_players \ {winner}
             /\ cards_won' = [cards_won EXCEPT ![winner] = win_card(@, current_card)]
             /\ funds' = o.funds
             /\ bid' = o.bid
             /\ err' = o.err
             /\ pc' = IF o.err = "none" THEN "draw" ELSE "aborted"
             /\ resolved' = [mode |-> "avoid", winner |-> winner, card |-> current_card,
                             received |-> {winner}, spenders |-> Elems(players) \ {winner},
                             bids |-> bid, passed |-> passed_players]
    /\ UNCHANGED << players, current_bid, deck, current_card, game_progress, before,
                    bidders, call >>

Next ==
    \/ DrawNewAuctionCard
    \/ HoldAuction
    \/ WinTurn
    \/ WinResolve
    \/ AvoidTurn
    \/ AvoidResolve

Spec == Init /\ [][Next]_vars

\* ------------------------------------------------------------- the winner
\* a < b for scores
RatLess(a, b) == a.num * b.den < b.num * a.den

\* min(player.total_money for player in self.players)
lowest_money(ps, fs) ==
    CHOOSE m \in {total_money(fs[ps[i]]) : i \in 1..Len(ps)} :
        \A i \in 1..Len(ps) : m <= total_money(fs[ps[i]])

RECURSIVE eligible_winners_or_lowest(_, _, _)
\* eligible_winners filtered with >= where the source has >
eligible_winners_or_lowest(ps, fs, lowest) ==
    IF ps = <<>> THEN <<>>
    ELSE (IF total_money(fs[Head(ps)]) >= lowest THEN <<Head(ps)>> ELSE <<>>)
             \o eligible_winners_or_lowest(Tail(ps), fs, lowest)

RECURSIVE eligible_winners(_, _, _)
\* the players of ps, in order, whose total money is above lowest
eligible_winners(ps, fs, lowest) ==
    IF ps = <<>> THEN <<>>
    ELSE (IF total_money(fs[Head(ps)]) > lowest THEN <<Head(ps)>> ELSE <<>>)
             \o eligible_winners(Tail(ps), fs, lowest)

RECURSIVE MaxByScore(_, _, _)
\* max(ps, key=get_total_score) with best the maximum so far: the first player
\* of maximal score
MaxByScore(ps, hands, best) ==
    IF ps = <<>> THEN best
    ELSE MaxByScore(Tail(ps), hands,
                    IF RatLess(get_score(hands[best]), get_score(hands[Head(ps)]))
                    THEN Head(ps) ELSE best)

\* HighSociety.get_winner; 0 stands for None
get_winner(ps, fs, hands) ==
    LET eligible == eligible_winners(ps, fs, lowest_money(ps, fs))
    IN  IF eligible = <<>> THEN 0
        ELSE MaxByScore(Tail(eligible), hands, Head(eligible))

\* ------------------------------------------------------- a game to its end
\* play_sample_game from the first draw to the winner, for a single player
\* and a deck that holds every card of the default deck but the luxury cards
\* Three to Ten.

FlowCards ==
    << FauxPasCard, PasseCard(-5), MultiplierCard(1, 2), MultiplierCard(2, 1),
       MultiplierCard(2, 1), MultiplierCard(2, 1), LuxuryCard(1), LuxuryCard(2) >>

RECURSIVE Orders(_, _)
\* AuctionCardDeck.shuffle: every order of the cards at the indices I
Orders(cards, I) ==
    IF I = {} THEN {<<>>}
    ELSE UNION {{<<cards[i]>> \o t : t \in Orders(cards, I \ {i})} : i \in I}

\* HighSociety.__init__(player_names) with one name
InitFlow ==
    /\ players = <<1>>
    /\ funds = [p \in {1} |-> SubSeq(DefaultFunds, 1, NumDenoms)]
    /\ bid = [p \in {1} |-> <<>>]
    /\ cards_won = [p \in {1} |-> <<>>]
    /\ passed_players = {}
    /\ current_bid = <<>>
    /\ deck \in Orders(FlowCards, DOMAIN FlowCards)
    /\ current_card = NoCard
    /\ game_progress = 0
    /\ pc = "draw"
    /\ err = "none"
    /\ before = [funds |-> funds, cards_won |-> cards_won, players |-> players, bid |-> bid,
                auctions |-> 0]
    /\ bidders = {}
    /\ resolved = NotResolved
    /\ call = NoCall

\* play_sample_game after its loop: the scores and the winner
FinishGame ==
    /\ pc = "game_over"
    /\ call' = [NoCall EXCEPT !.op = "get_winner",
                              !.winner = get_winner(players, funds, cards_won)]
    /\ pc' = "done"
    /\ UNCHANGED << players, funds, bid, cards_won, passed_players, current_bid, deck,
                    current_card, game_progress, err, before, bidders, resolved >>

\* With one player the loop of hold_auction_to_win is never entered.
NextFlow ==
    \/ DrawNewAuctionCard
    \/ HoldAuction
    \/ WinResolve
    \/ AvoidTurn
    \/ AvoidResolve
    \/ FinishGame

SpecFlow == InitFlow /\ [][NextFlow]_vars

\* ------------------------------------------------------- the ring alone
\* A HighSociety object whose mark_player_passed and _next_player are called
\* directly: a game of no to NumPlayers players, brought into some state by
\* these calls, then observed in one of them.

\* HighSociety.__init__(player_names) with the names of no to NumPlayers players
InitRing ==
    /\ \E n \in 0..NumPlayers :
         /\ players = [i \in 1..n |-> i]
         /\ funds = [p \in 1..n |-> SubSeq(DefaultFunds, 1, NumDenoms)]
         /\ bid = [p \in 1..n |-> <<>>]
         /\ cards_won = [p \in 1..n |-> <<>>]
    /\ passed_players = {}
    /\ current_bid = <<>>
    /\ deck = <<>>
    /\ current_card = NoCard
    /\ game_progress = 0
    /\ pc = "ring"
    /\ err = "none"
    /\ before = [funds |-> funds, cards_won |-> cards_won, players |-> players, bid |-> bid,
                auctions |-> 0]
    /\ bidders = {}
    /\ resolved = NotResolved
    /\ call = NoCall

\* game.mark_player_passed(player), for a player of the game or a stranger
MarkPlayerPassed ==
    /\ pc = "ring"
    /\ \E player \in Players, observed \in BOOLEAN :
         LET unknown == player \notin Elems(players)
         IN  /\ passed_players' = IF unknown THEN passed_players
                                  ELSE passed_players \cup {player}
             /\ call' = IF observed
                        THEN [NoCall EXCEPT !.op = "mark_player_passed",
                                            !.arg = <<player>>, !.ring = players,
                                            !.passed = passed_players,
                                            !.err = IF unknown THEN "ValueError"
                                                    ELSE "none"]
                        ELSE call
             /\ pc' = IF observed THEN "observed" ELSE pc
    /\ UNCHANGED << players, funds, bid, cards_won, current_bid, deck, current_card,
                    game_progress, err, before, bidders, resolved >>

\* game._next_player()
CallNextPlayer ==
    /\ pc = "ring"
    /\ \E observed \in BOOLEAN :
         LET np == next_player(players, passed_players)
         IN  /\ players' = np.players
             /\ call' = IF observed
                        THEN [NoCall EXCEPT !.op = "next_player", !.ring = players,
                                            !.passed = passed_players, !.err = np.err]
                        ELSE call
             /\ pc' = IF observed THEN "observed" ELSE pc
    /\ UNCHANGED << funds, bid, cards_won, passed_players, current_bid, deck,
                    current_card, game_progress, err, before, bidders, resolved >>

NextRing ==
    \/ MarkPlayerPassed
    \/ CallNextPlayer

SpecRing == InitRing /\ [][NextRing]_vars

\* ------------------------------------------- a game over the default deck
\* play_sample_game for a single player over the 16 cards of the default
\* deck.  Of the shuffles the model takes those that differ in the places of
\* the four multiplier cards and in which of them is Scandale; the other
\* cards lie in the order of _create_default_deck.

DefaultDeck ==
    << FauxPasCard, PasseCard(-5), MultiplierCard(1, 2), MultiplierCard(2, 1),
       MultiplierCard(2, 1), MultiplierCard(2, 1), LuxuryCard(1), LuxuryCard(2),
       LuxuryCard(3), LuxuryCard(4), LuxuryCard(5), LuxuryCard(6), LuxuryCard(7),
       LuxuryCard(8), LuxuryCard(9), LuxuryCard(10) >>

\* the deck with its multiplier cards at the places S, Scandale the r-th of them
DeckWith(S, r) ==
    LET others == SelectSeq(DefaultDeck, LAMBDA c : ~is_multiplier(c))
        below(i) == Cardinality({j \in S : j < i})
    IN  [i \in 1..Len(DefaultDeck) |->
            IF i \in S
            THEN (IF below(i) + 1 = r THEN MultiplierCard(1, 2) ELSE MultiplierCard(2, 1))
            ELSE others[i - below(i)]]

\* AuctionCardDeck.shuffle, as far as the model follows it
DeckOrders ==
    LET mult == {i \in 1..Len(DefaultDeck) : is_multiplier(DefaultDeck[i])}
    IN  {DeckWith(S, r) :
            S \in {T \in SUBSET (1..Len(DefaultDeck)) : Cardinality(T) = Cardinality(mult)},
            r \in 1..Cardinality(mult)}

\* HighSociety.__init__(player_names) with one name
InitFullDeck ==
    /\ players = <<1>>
    /\ funds = [p \in {1} |-> SubSeq(DefaultFunds, 1, NumDenoms)]
    /\ bid = [p \in {1} |-> <<>>]
    /\ cards_won = [p \in {1} |-> <<>>]
    /\ passed_players = {}
    /\ current_bid = <<>>
    /\ deck \in DeckOrders
    /\ current_card = NoCard
    /\ game_progress = 0
    /\ pc = "draw"
    /\ err = "none"
    /\ before = [funds |-> funds, cards_won |-> cards_won, players |-> players, bid |-> bid,
                auctions |-> 0]
    /\ bidders = {}
    /\ resolved = NotResolved
    /\ call = NoCall

SpecFullDeck == InitFullDeck /\ [][NextFlow]_vars

\* --------------------------------------------------------- a player alone
\* A Player object on its own, as the unit tests of player.py use it: built
\* with custom funds, brought into some state by calls of its methods, then
\* observed in one call whose arguments, state before and outcome `call` keeps.
\* current_bid stands for the highest bid of the auction around it.

\* the money cards a funds list or a bid is made of
Denoms == Elems(SubSeq(DefaultFunds, 1, NumDenoms))

\* custom_funds: the lists of at most MaxFundsLen money cards
FundsLists == UNION {[1..n -> Denoms] : n \in 0..MaxFundsLen}

\* a bid or a raise handed to a Player method: at most two entries, money
\* cards or the -1 of the pass sentinel
BidLists == UNION {[1..n -> Denoms \cup {-1}] : n \in 0..2}

\* the highest bid of the auction: nothing, or one money card
HighestBids == {<<>>} \cup {<<d>> : d \in Denoms}

\* Player.__init__ with custom funds
InitPlayer ==
    /\ players = <<1>>
    /\ funds \in [{1} -> FundsLists]
    /\ bid = [p \in {1} |-> <<>>]
    /\ cards_won = [p \in {1} |-> <<>>]
    /\ passed_players = {}
    /\ current_bid \in HighestBids
    /\ deck = <<>>
    /\ current_card = NoCard
    /\ game_progress = 0
    /\ pc = "player"
    /\ err = "none"
    /\ before = [funds |-> funds, cards_won |-> cards_won, players |-> players, bid |-> bid,
                auctions |-> 0]
    /\ bidders = {}
    /\ resolved = NotResolved
    /\ call = NoCall

\* the method op, called with arg, leaves outcome o (and the answer ok or
\* list of a query); observed, the call is kept in `call`
Called(op, arg, o, ok, list, observed) ==
    /\ funds' = [funds EXCEPT ![1] = o.funds]
    /\ bid' = [bid EXCEPT ![1] = o.bid]
    /\ call' = IF observed
               THEN [NoCall EXCEPT !.op = op, !.arg = arg, !.highest = current_bid,
                                   !.funds = funds[1], !.bid = bid[1], !.err = o.err,
                                   !.ok = ok, !.list = list, !.ret = o.ret]
               ELSE call
    /\ pc' = IF observed THEN "observed" ELSE pc
    /\ UNCHANGED << players, cards_won, passed_players, current_bid, deck, current_card,
                    game_progress, err, before, bidders, resolved >>

\* player.bid = new
SetBid ==
    /\ pc = "player"
    /\ \E new \in BidLists, observed \in BOOLEAN :
         Called("set_bid", new, set_bid(funds[1], bid[1], new), FALSE, <<>>, observed)

\* player.raise_bid(raise_amount)
RaiseBid ==
    /\ pc = "player"
    /\ \E raise_amount \in BidLists, observed \in BOOLEAN :
         Called("raise_bid", raise_amount, raise_bid(funds[1], bid[1], raise_amount),
                FALSE, <<>>, observed)

\* player.pass_bid()
PassBid ==
    /\ pc = "player"
    /\ \E observed \in BOOLEAN :
         Called("pass_bid", <<>>, pass_bid(funds[1], bid[1]), FALSE, <<>>, observed)

\* player.reset_bid()
ResetBid ==
    /\ pc = "player"
    /\ \E observed \in BOOLEAN :
         Called("reset_bid", <<>>, reset_bid(funds[1], bid[1]), FALSE, <<>>, observed)

\* player.spend_bid()
SpendBid ==
    /\ pc = "player"
    /\ \E observed \in BOOLEAN :
         Called("spend_bid", <<>>, spend_bid(funds[1], bid[1]), FALSE, <<>>, observed)

\* player.bid_is_valid(b, current_highest_bid)
BidIsValid ==
    /\ pc = "player"
    /\ \E b \in BidLists :
         Called("bid_is_valid", b, Outcome(funds[1], bid[1], <<>>, "none"),
                bid_is_valid(funds[1], b, current_bid), <<>>, TRUE)

\* player.get_valid_bids(current_highest_bid)
GetValidBids ==
    /\ pc = "player"
    /\ Called("get_valid_bids", <<>>, Outcome(funds[1], bid[1], <<>>, "none"),
              FALSE, get_valid_bids(funds[1], bid[1], current_bid), TRUE)

\* player.bid_or_pass_randomly(current_highest_bid), under every outcome of
\* random() and choices()
BidOrPassRandomly ==
    /\ pc = "player"
    /\ \E o \in bid_or_pass_randomly(funds[1], bid[1], current_bid), observed \in BOOLEAN :
         Called("bid_or_pass_randomly", <<>>, o, FALSE, <<>>, observed)

NextPlayer ==
    \/ SetBid
    \/ RaiseBid
    \/ PassBid
    \/ ResetBid
    \/ SpendBid
    \/ BidIsValid
    \/ GetValidBids
    \/ BidOrPassRandomly

SpecPlayer == InitPlayer /\ [][NextPlayer]_vars

\* Player.__init__ keeps the list custom_funds it is given as _funds, without a
\* copy, and the funds property hands the same list out: the code that owns
\* the list takes a money card out of it.
FundsListLosesCard ==
    /\ pc = "player"
    /\ \E i \in 1..Len(funds[1]) : funds' = [funds EXCEPT ![1] = DropAt(@, i)]
    /\ UNCHANGED << players, bid, cards_won, passed_players, current_bid, deck,
                    current_card, game_progress, pc, err, before, bidders, resolved, call >>

NextSharedFunds ==
    \/ NextPlayer
    \/ FundsListLosesCard

\* a Player whose funds list is shared with the code that built it
SpecSharedFunds == InitPlayer /\ [][NextSharedFunds]_vars

\* ----------------------------------------------------------- a hand alone
\* An AuctionCardHand on its own, as the unit tests of auction_card.py use it:
\* built empty, filled by win_card, then observed in one call of win_card or
\* get_score.  The hand is cards_won[1].

\* A hand takes cards until it holds MaxHandLen of them.
MaxHandLen == 4

\* the cards a hand is handed
HandCards == Elems(DeckCards)

\* AuctionCardHand()
InitHand ==
    /\ players = <<1>>
    /\ funds = [p \in {1} |-> <<>>]
    /\ bid = [p \in {1} |-> <<>>]
    /\ cards_won = [p \in {1} |-> <<>>]
    /\ passed_players = {}
    /\ current_bid = <<>>
    /\ deck = <<>>
    /\ current_card = NoCard
    /\ game_progress = 0
    /\ pc = "hand"
    /\ err = "none"
    /\ before = [funds |-> funds, cards_won |-> cards_won, players |-> players, bid |-> bid,
                auctions |-> 0]
    /\ bidders = {}
    /\ resolved = NotResolved
    /\ call = NoCall

\* hand.win_card(card)
WinCard ==
    /\ pc = "hand"
    /\ Len(cards_won[1]) < MaxHandLen
    /\ \E card \in HandCards, observed \in BOOLEAN :
         /\ cards_won' = [cards_won EXCEPT ![1] = win_card(@, card)]
         /\ call' = IF observed
                    THEN [NoCall EXCEPT !.op = "win_card", !.card = card,
                                        !.hand = cards_won[1]]
                    ELSE call
         /\ pc' = IF observed THEN "observed" ELSE pc
    /\ UNCHANGED << players, funds, bid, passed_players, current_bid, deck, current_card,
                    game_progress, err, before, bidders, resolved >>

\* hand.get_score()
GetScore ==
    /\ pc = "hand"
    /\ call' = [NoCall EXCEPT !.op = "get_score", !.hand = cards_won[1],
                              !.score = get_score(cards_won[1])]
    /\ pc' = "observed"
    /\ UNCHANGED << players, funds, bid, cards_won, passed_players, current_bid, deck,
                    current_card, game_progress, err, before, bidders, resolved >>

NextHand ==
    \/ WinCard
    \/ GetScore

SpecHand == InitHand /\ [][NextHand]_vars

\* ------------------------------------------------------- the game's winner
\* get_winner on a game at its end: every player holds some of the money
\* cards the game started with and one of a few hands.

\* the money cards left of the starting funds, in their order
RemainingFunds ==
    LET start == SubSeq(DefaultFunds, 1, NumDenoms)
    IN  {fs \in FundsLists :
            \E f \in [1..Len(fs) -> 1..Len(start)] :
                /\ \A i \in 1..Len(fs) : fs[i] = start[f[i]]
                /\ \A i, j \in 1..Len(fs) : i < j => f[i] < f[j]}

\* hands of score -5/2, 2, 2 and 3
EndHands ==
    { <<PasseCard(-5), MultiplierCard(1, 2)>>, <<LuxuryCard(2)>>,
      <<LuxuryCard(1), MultiplierCard(2, 1)>>, <<LuxuryCard(1), LuxuryCard(2)>> }

\* a game of one to NumPlayers players after its last auction
InitWinner ==
    /\ \E n \in Players :
         /\ players = [i \in 1..n |-> i]
         /\ funds \in [1..n -> RemainingFunds]
         /\ bid = [p \in 1..n |-> <<>>]
         /\ cards_won \in [1..n -> EndHands]
    /\ passed_players = {}
    /\ current_bid = <<>>
    /\ deck = <<>>
    /\ current_card = NoCard
    /\ game_progress = DEFAULT_GAME_LENGTH
    /\ pc = "game_over"
    /\ err = "none"
    /\ before = [funds |-> funds, cards_won |-> cards_won, players |-> players, bid |-> bid,
                auctions |-> 0]
    /\ bidders = {}
    /\ resolved = NotResolved
    /\ call = NoCall

\* game.get_winner()
GetWinner ==
    /\ pc = "game_over"
    /\ call' = [NoCall EXCEPT !.op = "get_winner",
                              !.winner = get_winner(players, funds, cards_won)]
    /\ pc' = "observed"
    /\ UNCHANGED << players, funds, bid, cards_won, passed_players, current_bid, deck,
                    current_card, game_progress, err, before, bidders, resolved >>

SpecWinner == InitWinner /\ [][GetWinner]_vars

\* ------------------------------------------------- the auction: properties
\* a disgrace card by its kind: Passe, Faux Pas, or a multiplier below 1
DisgraceKind(c) ==
    \/ c.type \in {"Passe", "Faux Pas"}
    \/ c.type = "Multiplier" /\ c.value < c.scale

InAuction == pc \in {"win", "avoid"}

\* the hands after the card of the last auction went to player w through win_card
HandsAfterWin(w) ==
    [before.cards_won EXCEPT ![w] = win_card(@, resolved.card)]

\* C1: a card that is no disgrace card is auctioned by the BidToWin loop; the
\* auction resolves only with exactly playerCount-1 players in the passed set,
\* its winner is the one player outside the passed set, and the winner and
\* nobody else receives the card through win_card.
C1_WinResolvesAtLastActive ==
    /\ InAuction /\ ~DisgraceKind(current_card) => pc = "win"
    /\ resolved.mode = "win" =>
         /\ ~DisgraceKind(resolved.card)
         /\ Cardinality(resolved.passed) = Len(players) - 1
         /\ Elems(players) \ resolved.passed = {resolved.winner}
         /\ cards_won = HandsAfterWin(resolved.winner)

\* a BidToWin auction of three players or more resolved after bids were placed
C1_Witness ==
    /\ resolved.mode = "win"
    /\ Cardinality(resolved.passed) >= 2
    /\ bidders # {}
    /\ cards_won[resolved.winner] # before.cards_won[resolved.winner]

\* C2: a disgrace card is auctioned by the BidToAvoid loop; during it the
\* passed set never holds more than one player, and the player who passed is
\* the winner and the one who receives the card through win_card.
C2_AvoidEndsOnFirstPass ==
    /\ InAuction /\ DisgraceKind(current_card) => pc = "avoid"
    /\ pc = "avoid" => Cardinality(passed_players) <= 1
    /\ resolved.mode = "avoid" =>
         /\ DisgraceKind(resolved.card)
         /\ resolved.passed = {resolved.winner}
         /\ cards_won = HandsAfterWin(resolved.winner)

\* a BidToAvoid auction resolved by a pass that followed bids
C2_Witness ==
    /\ resolved.mode = "avoid"
    /\ bidders # {}
    /\ resolved.passed = {resolved.winner}
    /\ cards_won[resolved.winner] # before.cards_won[resolved.winner]

\* C3: after a BidToAvoid auction the player who passed holds the funds held
\* before the auction; every other player's funds are the funds held before
\* the auction less, as a multiset, that player's committed bid (nothing for
\* a player who never bid).
C3_AvoidOthersPay ==
    resolved.mode = "avoid" =>
        /\ funds[resolved.winner] = before.funds[resolved.winner]
        /\ \A p \in Elems(players) \ {resolved.winner} :
             /\ BagOf(funds[p]) (+) BagOf(resolved.bids[p]) = BagOf(before.funds[p])
             /\ p \notin bidders => funds[p] = before.funds[p]

\* the player who took the card had bid, two other players pay their bids
C3_Witness ==
    /\ resolved.mode = "avoid"
    /\ resolved.winner \in bidders
    /\ \E p, q \in Elems(players) \ {resolved.winner} :
         /\ p # q
         /\ resolved.bids[p] # <<>>
         /\ resolved.bids[q] # <<>>
         /\ funds[p] # before.funds[p]
         /\ funds[q] # before.funds[q]

\* C4: after a BidToWin auction the winner's funds are the funds held before
\* the auction less, as a multiset, the winner's committed bid; every other
\* player's funds and hand are as they were before the auction.
C4_WinWinnerPays ==
    resolved.mode = "win" =>
        /\ BagOf(funds[resolved.winner]) (+) BagOf(resolved.bids[resolved.winner])
               = BagOf(before.funds[resolved.winner])
        /\ total_money(funds[resolved.winner])
               = total_money(before.funds[resolved.winner])
                    - SumSeq(resolved.bids[resolved.winner])
        /\ \A p \in Elems(players) \ {resolved.winner} :
             /\ funds[p] = before.funds[p]
             /\ cards_won[p] = before.cards_won[p]

\* the winner pays a bid, and a player who had bid passed later
C4_Witness ==
    /\ resolved.mode = "win"
    /\ resolved.bids[resolved.winner] # <<>>
    /\ funds[resolved.winner] # before.funds[resolved.winner]
    /\ (bidders \cap resolved.passed) # {}

\* C5: in every state of a game each player's committed bid is empty, the
\* pass sentinel, or contained with multiplicity in the player's funds; and
\* auction resolution calls spend_bid only on players whose bid is not the
\* pass sentinel, so that no spend_bid of a game fails.
C5_BidsCoveredByFunds ==
    /\ \A p \in Elems(players) :
         \/ bid[p] = <<>>
         \/ bid[p] = PASS
         \/ BagOf(bid[p]) \sqsubseteq BagOf(funds[p])
    /\ resolved.mode # "none" =>
         /\ \A p \in resolved.spenders : resolved.bids[p] # PASS
         /\ err = "none"

\* an auction resolved where a spender held a bid of two cards and another
\* player holds the pass sentinel
C5_Witness ==
    /\ resolved.mode # "none"
    /\ \E p \in resolved.spenders : Len(resolved.bids[p]) >= 2
    /\ \E p \in Elems(players) : bid[p] = PASS

\* C18: in an auction of either mode, whatever the players decide and for
\* any number of players from one up, _next_player is never called with every
\* player in the passed set: no auction raises NoActivePlayerError.
C18_AuctionKeepsActivePlayer ==
    /\ err # "NoActivePlayerError"
    /\ pc = "win" => \E p \in Elems(players) : p \notin passed_players
    /\ pc = "avoid" /\ avoid_loop_continues(passed_players) =>
           \E p \in Elems(players) : p \notin passed_players

\* a BidToAvoid auction of two players resolved after both had bid, the ring
\* moved on by _next_player
C18_Witness ==
    /\ resolved.mode = "avoid"
    /\ Len(players) = 2
    /\ bidders = Elems(players)
    /\ players # before.players
    /\ err = "none"

\* C20: when an auction starts, whatever the auction before has left (pass
\* sentinels included), every player's committed bid is empty, the passed
\* set is empty and the highest bid is empty before the first player is asked.
C20_AuctionStartsClean ==
    [][pc = "hold_auction" /\ pc' \in {"win", "avoid"} =>
           /\ \A p \in Elems(players') : bid'[p] = <<>>
           /\ passed_players' = {}
           /\ current_bid' = <<>>]_vars

\* the second auction starts clean after an auction of three players that
\* left two pass sentinels
C20_Witness ==
    /\ InAuction
    /\ Cardinality({p \in Elems(players) : before.bid[p] = PASS}) >= 2
    /\ before.cards_won # [p \in DOMAIN cards_won |-> <<>>]
    /\ \A p \in Elems(players) : bid[p] = <<>>
    /\ passed_players = {}
    /\ current_bid = <<>>
    /\ bidders = {}

\* ------------------------------------------------ the player: properties
RECURSIVE SumBag(_)
\* the sum of a multiset of numbers
SumBag(B) ==
    IF DOMAIN B = {} THEN 0
    ELSE LET x == CHOOSE y \in DOMAIN B : TRUE
         IN  x * B[x] + SumBag([y \in DOMAIN B \ {x} |-> B[y]])

\* the money cards of the observed player that no committed bid holds
AvailableBag == BagOf(call.funds) (-) BagOf(call.bid)

\* C6: bid_is_valid(bid, highest) is true exactly when bid is the pass
\* sentinel, or its sum is strictly above the sum of highest and the funds
\* hold each of its denominations at least as often as bid does; a bid of
\* the sum of highest is rejected though the player holds its cards.
C6_BidIsValidIff ==
    call.op = "bid_is_valid" =>
        (call.ok <=>
            \/ call.arg = PASS
            \/ /\ SumSeq(call.arg) > SumSeq(call.highest)
               /\ BagOf(call.arg) \sqsubseteq BagOf(call.funds))

\* a bid of held cards whose sum is that of the highest bid is rejected
C6_Witness ==
    /\ call.op = "bid_is_valid"
    /\ call.arg # <<>>
    /\ BagOf(call.arg) \sqsubseteq BagOf(call.funds)
    /\ SumSeq(call.arg) = SumSeq(call.highest)
    /\ ~call.ok

\* C7: a raise of money cards that the player does not hold beyond the
\* committed bid, or whose cumulative bid is not strictly above the highest
\* bid of the auction, is rejected with an error and leaves the committed bid
\* as it was.
C7_InvalidRaiseRejected ==
    /\ call.op = "raise_bid"
    /\ -1 \notin Elems(call.arg) \cup Elems(call.bid)
    /\ \/ ~(BagOf(call.arg) \sqsubseteq AvailableBag)
       \/ ~(SumSeq(call.bid) + SumSeq(call.arg) > SumSeq(call.highest))
    => /\ call.err # "none"
       /\ bid[1] = call.bid

\* C8: every candidate of get_valid_bids(highest) is non-empty, lies with
\* multiplicity in the funds less the committed bid, and has a sum strictly
\* above sum(highest) - sum(committed bid).
C8_ValidBidsSound ==
    call.op = "get_valid_bids" =>
        \A i \in 1..Len(call.list) :
            /\ call.list[i] # <<>>
            /\ BagOf(call.list[i]) \sqsubseteq AvailableBag
            /\ SumSeq(call.list[i]) > SumSeq(call.highest) - SumSeq(call.bid)

\* candidates of a player who has committed a bid below the highest bid and
\* holds further cards, some of them too small to raise with
C8_Witness ==
    /\ call.op = "get_valid_bids"
    /\ call.bid \notin {<<>>, PASS}
    /\ SumSeq(call.highest) > SumSeq(call.bid)
    /\ Len(call.list) >= 2
    /\ \E d \in DOMAIN AvailableBag : d <= SumSeq(call.highest) - SumSeq(call.bid)

\* C9: every non-empty sub-multiset of the funds less the committed bid whose
\* sum is strictly above sum(highest) - sum(committed bid) is a candidate of
\* get_valid_bids(highest).
C9_ValidBidsComplete ==
    call.op = "get_valid_bids" =>
        \A sb \in SubBag(AvailableBag) :
            sb # EmptyBag /\ SumBag(sb) > SumSeq(call.highest) - SumSeq(call.bid)
                => \E i \in 1..Len(call.list) : BagOf(call.list[i]) = sb

\* the candidates of a player with a committed bid whose cards left hold one
\* denomination twice: all the cards left together are a candidate, some
\* sub-multiset of them is too small to be one
C9_Witness ==
    /\ call.op = "get_valid_bids"
    /\ call.bid \notin {<<>>, PASS}
    /\ BagCardinality(AvailableBag) >= 2
    /\ \E d \in DOMAIN AvailableBag : AvailableBag[d] >= 2
    /\ \E i \in 1..Len(call.list) : BagOf(call.list[i]) = AvailableBag
    /\ \E sb \in SubBag(AvailableBag) :
         sb # EmptyBag /\ ~(SumBag(sb) > SumSeq(call.highest) - SumSeq(call.bid))

\* C10: spend_bid on a committed bid that lies in the funds removes the
\* bid's denominations and nothing else: the funds left plus the bid are the
\* funds before, the total money drops by the bid's sum, the bid is empty.
C10_SpendRemovesBid ==
    call.op = "spend_bid" /\ BagOf(call.bid) \sqsubseteq BagOf(call.funds) =>
        /\ call.err = "none"
        /\ BagOf(funds[1]) (+) BagOf(call.bid) = BagOf(call.funds)
        /\ total_money(funds[1]) = total_money(call.funds) - SumSeq(call.bid)
        /\ bid[1] = <<>>

\* a bid of two cards spent from funds that hold one of them twice
C10_Witness ==
    /\ call.op = "spend_bid"
    /\ call.err = "none"
    /\ Len(call.bid) >= 2
    /\ \E d \in Elems(call.bid) : Count(d, call.funds) > Count(d, call.bid)
    /\ Len(funds[1]) = Len(call.funds) - Len(call.bid)

\* -------------------------------------------------- the hand: properties
\* the indices of the cards of the given kinds in a hand
OfKind(cards, kinds) == {i \in 1..Len(cards) : cards[i].type \in kinds}

\* the hand without the card at index i, entry by entry
Without(cards, i) ==
    [k \in 1..(Len(cards) - 1) |-> IF k < i THEN cards[k] ELSE cards[k + 1]]

\* C11: win_card with a Faux Pas card on a hand that holds a Luxury card does
\* not add the Faux Pas card and removes exactly one card, a Luxury card whose
\* value is minimal among the hand's Luxury cards; every other card stays.
C11_FauxPasTakesSmallestLuxury ==
    /\ call.op = "win_card"
    /\ call.card.type = "Faux Pas"
    /\ OfKind(call.hand, {"Luxury"}) # {}
    => \E i \in OfKind(call.hand, {"Luxury"}) :
          /\ \A j \in OfKind(call.hand, {"Luxury"}) :
                call.hand[i].value * call.hand[j].scale
                    <= call.hand[j].value * call.hand[i].scale
          /\ cards_won[1] = Without(call.hand, i)

\* a Faux Pas card won on a hand whose first Luxury card is not its smallest
\* and that holds a card of another kind: the smaller Luxury card is gone
C11_Witness ==
    /\ call.op = "win_card"
    /\ call.card.type = "Faux Pas"
    /\ OfKind(call.hand, {"Passe", "Multiplier"}) # {}
    /\ \E i, j \in OfKind(call.hand, {"Luxury"}) :
         /\ i < j
         /\ call.hand[j].value < call.hand[i].value
         /\ cards_won[1] = Without(call.hand, j)

\* C12: a Faux Pas card won on a hand without Luxury cards is added to the
\* hand; a Luxury card won on a hand that holds a Faux Pas card is not added
\* and takes one Faux Pas card out of the hand; so a Faux Pas card and then a
\* Luxury card won on an empty hand leave the hand empty.
C12_FauxPasCancelsNextLuxury ==
    call.op = "win_card" =>
        /\ call.card.type = "Faux Pas" /\ OfKind(call.hand, {"Luxury"}) = {}
               => cards_won[1] = call.hand \o <<call.card>>
        /\ call.card.type = "Luxury" /\ OfKind(call.hand, {"Faux Pas"}) # {}
               => \E i \in OfKind(call.hand, {"Faux Pas"}) :
                     cards_won[1] = Without(call.hand, i)
        /\ call.card.type = "Luxury" /\ call.hand = <<FauxPasCard>>
               => cards_won[1] = <<>>

\* the empty hand took a Faux Pas card, then a Luxury card: it is empty again
C12_Witness ==
    /\ call.op = "win_card"
    /\ call.hand = <<FauxPasCard>>
    /\ call.card.type = "Luxury"
    /\ cards_won[1] = <<>>

RECURSIVE SumValues(_, _)
\* the sum of the values of the cards at the indices I (cards of scale 1)
SumValues(cards, I) ==
    IF I = {} THEN 0
    ELSE LET i == CHOOSE k \in I : TRUE
         IN  cards[i].value + SumValues(cards, I \ {i})

RECURSIVE ProdValues(_, _)
\* the product of the value numerators of the cards at the indices I
ProdValues(cards, I) ==
    IF I = {} THEN 1
    ELSE LET i == CHOOSE k \in I : TRUE
         IN  cards[i].value * ProdValues(cards, I \ {i})

RECURSIVE ProdScales(_, _)
\* the product of the value denominators of the cards at the indices I
ProdScales(cards, I) ==
    IF I = {} THEN 1
    ELSE LET i == CHOOSE k \in I : TRUE
         IN  cards[i].scale * ProdScales(cards, I \ {i})

\* C13: get_score is the sum of the values of the hand's Luxury and Passe
\* cards (a Passe value is negative) times the product of the values of its
\* Multiplier cards (1 without any); Faux Pas cards add nothing and several
\* multipliers compound.
C13_ScoreIsBaseTimesMultipliers ==
    call.op = "get_score" =>
        /\ call.score.den > 0
        /\ \A i \in OfKind(call.hand, {"Passe"}) : call.hand[i].value < 0
        /\ call.score.num * ProdScales(call.hand, OfKind(call.hand, {"Multiplier"}))
               = SumValues(call.hand, OfKind(call.hand, {"Luxury", "Passe"}))
                    * ProdValues(call.hand, OfKind(call.hand, {"Multiplier"}))
                    * call.score.den

\* the score of a hand of a Passe card, a Faux Pas card and two multipliers
C13_Witness ==
    /\ call.op = "get_score"
    /\ OfKind(call.hand, {"Passe"}) # {}
    /\ OfKind(call.hand, {"Faux Pas"}) # {}
    /\ Cardinality(OfKind(call.hand, {"Multiplier"})) >= 2
    /\ call.score.num # 0

\* ------------------------------------------------ the winner: properties
\* the least total money any player holds
LeastMoney ==
    CHOOSE m \in {SumSeq(funds[p]) : p \in Elems(players)} :
        \A p \in Elems(players) : m <= SumSeq(funds[p])

\* the players whose total money is above the least
AboveLeast == {p \in Elems(players) : SumSeq(funds[p]) > LeastMoney}

\* C14: get_winner never returns a player whose total funds are the least of
\* all players; it returns nobody exactly when all players hold the same
\* total funds; otherwise it returns a player above the least funds whose
\* score no other such player exceeds, whatever the scores of the players it
\* leaves out.
C14_WinnerAboveLeastFunds ==
    call.op = "get_winner" =>
        /\ call.winner # 0 => call.winner \in AboveLeast
        /\ call.winner = 0 <=>
               \A p, q \in Elems(players) : SumSeq(funds[p]) = SumSeq(funds[q])
        /\ call.winner # 0 =>
               \A q \in AboveLeast :
                   ~RatLess(get_score(cards_won[call.winner]), get_score(cards_won[q]))

\* the winner beats another player above the least funds, and the player of
\* least funds that is left out has a higher score than the winner
C14_Witness ==
    /\ call.op = "get_winner"
    /\ call.winner # 0
    /\ \E q \in AboveLeast :
         RatLess(get_score(cards_won[q]), get_score(cards_won[call.winner]))
    /\ \E q \in Elems(players) \ AboveLeast :
         RatLess(get_score(cards_won[call.winner]), get_score(cards_won[q]))

\* ---------------------------------------------- the game flow: properties
\* C15: draw_new_auction_card raises game_progress by one exactly when the
\* card drawn is a Multiplier card and leaves it otherwise; it returns None
\* exactly when game_progress is 4 after the draw; and play_sample_game holds
\* no auction for the card whose draw ended the game.
C15_DrawCountsMultipliers ==
    call.op = "draw_new_auction_card" =>
        /\ call.card = current_card
        /\ game_progress =
               call.progress + (IF call.card.type = "Multiplier" THEN 1 ELSE 0)
        /\ ~call.ok <=> game_progress = 4
        /\ ~call.ok => pc = "game_over" /\ resolved.card # NoCard
        /\ pc = "hold_auction" \/ InAuction => call.ok

\* the fourth multiplier was drawn after auctions of other cards, with cards
\* left in the deck: the game is over and the card is not auctioned
C15_Witness ==
    /\ call.op = "draw_new_auction_card"
    /\ ~call.ok
    /\ call.card.type = "Multiplier"
    /\ call.progress = 3
    /\ pc = "game_over"
    /\ deck # <<>>
    /\ resolved.mode = "avoid"
    /\ Len(cards_won[1]) >= 4

\* -------------------------------------------------- the ring: properties
\* the list s rotated k places to the left
Rot(s, k) == [i \in 1..Len(s) |-> s[((i - 1 + k) % Len(s)) + 1]]

\* C16: _next_player on an empty player list, or with every player in the
\* passed set (two players who both passed, say), fails with
\* NoActivePlayerError and leaves the player order and the passed set as they
\* were.
C16_NoActivePlayerFails ==
    /\ call.op = "next_player"
    /\ call.ring = <<>> \/ \A i \in 1..Len(call.ring) : call.ring[i] \in call.passed
    => /\ call.err = "NoActivePlayerError"
       /\ players = call.ring
       /\ passed_players = call.passed

\* _next_player called after each of two players or more has passed
C16_Witness ==
    /\ call.op = "next_player"
    /\ Len(call.ring) >= 2
    /\ \A i \in 1..Len(call.ring) : call.ring[i] \in call.passed
    /\ call.err = "NoActivePlayerError"
    /\ players = call.ring

\* C17: with a player outside the passed set, _next_player moves the front
\* player to the back at least once and stops at the first player, in ring
\* order after the former front player, who has not passed; the order it
\* leaves is a rotation of the order it found.
C17_NextPlayerRotatesToActive ==
    /\ call.op = "next_player"
    /\ \E i \in 1..Len(call.ring) : call.ring[i] \notin call.passed
    => /\ call.err = "none"
       /\ passed_players = call.passed
       /\ \E k \in 1..Len(call.ring) :
            /\ players = Rot(call.ring, k)
            /\ players[1] \notin call.passed
            /\ \A j \in 1..(k - 1) : Rot(call.ring, j)[1] \in call.passed

\* the player behind the front has passed and is skipped: the third player
\* of the ring comes to the front
C17_Witness ==
    /\ call.op = "next_player"
    /\ call.err = "none"
    /\ Len(call.ring) >= 3
    /\ call.ring[2] \in call.passed
    /\ call.ring[3] \notin call.passed
    /\ players = Rot(call.ring, 2)
    /\ players # call.ring

\* C19: bid_or_pass_randomly returns the pass sentinel whenever the player
\* has passed already or the sum of the highest bid is at least the player's
\* total funds; in every other case it passes or it raises, and when it
\* raises a legal raise exists, and the cumulative bid it returns is strictly
\* above the highest bid and lies with multiplicity in the player's funds.
C19_RandomPolicyPassesOrRaises ==
    call.op = "bid_or_pass_randomly" =>
        IF call.bid = PASS \/ SumSeq(call.highest) >= SumSeq(call.funds)
        THEN call.err = "none" /\ call.ret = PASS
        ELSE /\ call.err = "none"
             /\ \/ call.ret = PASS /\ bid[1] = PASS
                \/ /\ call.ret = bid[1]
                   /\ \E sb \in SubBag(AvailableBag) :
                        /\ sb # EmptyBag
                        /\ SumBag(sb) > SumSeq(call.highest) - SumSeq(call.bid)
                   /\ SumSeq(call.ret) > SumSeq(call.highest)
                   /\ BagOf(call.ret) \sqsubseteq BagOf(call.funds)

\* ------------------------------------------- the auction loops: properties
\* C21: in a BidToWin auction the player asked to bid or pass (the one
\* player whose committed bid the step changes) is the front player and is not
\* in the passed set; fewer than playerCount-1 players have passed when a
\* player is asked, so the winner is never asked for a last decision; and
\* after a bid and after a pass alike the ring stops at the first player
\* behind the one asked who has not passed.
C21_WinTurnsFollowRing ==
    [][pc = "win" /\ resolved' = resolved /\ bid' # bid =>
           LET q == CHOOSE p \in DOMAIN bid : bid'[p] # bid[p]
           IN  /\ \A p \in DOMAIN bid \ {q} : bid'[p] = bid[p]
               /\ q = players[1]
               /\ q \notin passed_players
               /\ Cardinality(passed_players) < Len(players) - 1
               /\ \E k \in 1..Len(players) :
                    /\ players' = Rot(players, k)
                    /\ players'[1] \notin passed_players'
                    /\ \A j \in 1..(k - 1) : Rot(players, j)[1] \in passed_players'
      ]_vars

\* a BidToWin auction of three players in which two players bid and the winner,
\* not the first player asked, was one of them
C21_Witness ==
    /\ resolved.mode = "win"
    /\ Len(players) >= 3
    /\ Cardinality(bidders) >= 2
    /\ resolved.winner \in bidders
    /\ resolved.winner # before.players[1]

\* C22: in a BidToAvoid auction the ring moves on after a bid and stays after
\* a pass: when the auction is resolved the front player of the ring is the
\* player who passed and took the card, and the ring is a rotation of the
\* ring the auction started with.
C22_AvoidLeavesPasserInFront ==
    resolved.mode = "avoid" =>
        /\ players[1] = resolved.winner
        /\ resolved.winner \in resolved.passed
        /\ \E k \in 0..(Len(players) - 1) : players = Rot(before.players, k)

\* a BidToAvoid auction of three players resolved after two of them had bid:
\* the ring has moved and the player who passed is in front
C22_Witness ==
    /\ resolved.mode = "avoid"
    /\ Len(players) >= 3
    /\ Cardinality(bidders) >= 2
    /\ players # before.players
    /\ players[1] = resolved.winner

\* C23 as stated: in play_sample_game over the default deck of 16 cards, 4 of
\* them Multiplier cards, draw is never called on an empty deck; the game
\* ends at the draw of the fourth Multiplier card, after at most 16 draws;
\* game_progress never exceeds 4; at most 12 auctions are held, none of them
\* after the game has ended.
C23_AtMostTwelveAuctions ==
    /\ pc = "draw" => deck # <<>>
    /\ Len(DefaultDeck) - Len(deck) <= 16
    /\ game_progress <= 4
    /\ pc \in {"game_over", "done"} <=> game_progress = 4
    /\ game_progress = 4 => current_card.type = "Multiplier"
    /\ before.auctions <= 12
    /\ game_progress = 4 => ~InAuction /\ pc # "hold_auction"

\* C23, amended: as C23, but up to 15 auctions are held: every card drawn
\* before the fourth Multiplier card is auctioned, the three Multiplier cards
\* among them included.
C23_AtMostFifteenAuctions ==
    /\ pc = "draw" => deck # <<>>
    /\ Len(DefaultDeck) - Len(deck) <= 16
    /\ game_progress <= 4
    /\ pc \in {"game_over", "done"} <=> game_progress = 4
    /\ game_progress = 4 => current_card.type = "Multiplier"
    /\ before.auctions <= 15
    /\ before.auctions <= Len(DefaultDeck) - Len(deck)
    /\ game_progress = 4 => ~InAuction /\ pc # "hold_auction"
    /\ game_progress = 4 => before.auctions = Len(DefaultDeck) - Len(deck) - 1

\* the fourth Multiplier card is the last card of the deck: the game ends at
\* the 16th draw, after 15 auctions
C23_Witness ==
    /\ pc = "game_over"
    /\ deck = <<>>
    /\ game_progress = 4
    /\ before.auctions = 15
    /\ Len(DefaultDeck) = 16

\* ---------------------------------------- the bid engine: more properties
\* C24: the list of get_valid_bids is ordered by non-decreasing sum: of two
\* candidates the earlier one never has the larger sum, so the first
\* candidate is a cheapest legal raise.
C24_ValidBidsSortedBySum ==
    call.op = "get_valid_bids" =>
        /\ \A i, j \in 1..Len(call.list) :
               i < j => SumSeq(call.list[i]) <= SumSeq(call.list[j])
        /\ \A sb \in SubBag(AvailableBag) :
               sb # EmptyBag /\ SumBag(sb) > SumSeq(call.highest) - SumSeq(call.bid)
                   => SumSeq(call.list[1]) <= SumBag(sb)

\* three candidates or more, of different sums, that the enumeration by
\* length does not yield in the order returned
C24_Witness ==
    /\ call.op = "get_valid_bids"
    /\ Len(call.list) >= 3
    /\ SumSeq(call.list[1]) < SumSeq(call.list[Len(call.list)])
    /\ call.list # CombosAbove(get_available_raises(call.funds, call.bid), 1,
                               SumSeq(call.highest) - SumSeq(call.bid))

\* C25: get_valid_bids lists each qualifying sub-multiset of the available
\* funds exactly once, also when the funds hold a denomination more than
\* once: no two candidates are the same multiset and the list is as long as
\* there are qualifying sub-multisets.
C25_ValidBidsListedOnce ==
    call.op = "get_valid_bids" =>
        /\ \A i, j \in 1..Len(call.list) :
               i # j => BagOf(call.list[i]) # BagOf(call.list[j])
        /\ Len(call.list) =
               Cardinality({sb \in SubBag(AvailableBag) :
                               /\ sb # EmptyBag
                               /\ SumBag(sb) > SumSeq(call.highest) - SumSeq(call.bid)})

\* C26: spend_bid on a committed bid that holds a denomination the funds do
\* not hold often enough (the pass sentinel included) fails with an error and
\* leaves the funds and the committed bid as they were before the call: no
\* money card is removed.
C26_FailedSpendChangesNothing ==
    call.op = "spend_bid" /\ ~(BagOf(call.bid) \sqsubseteq BagOf(call.funds)) =>
        /\ call.err # "none"
        /\ funds[1] = call.funds
        /\ bid[1] = call.bid

\* ------------------------------------- the auction loops: more properties
\* C27: within an auction of automated players every bid a player commits
\* (other than a pass) becomes the highest bid and has a sum strictly above
\* the highest bid in force before it; the sum of the highest bid never
\* decreases, and a pass leaves the highest bid as it was.
C27_BidsStrictlyRaise ==
    [][InAuction /\ resolved' = resolved =>
           /\ SumSeq(current_bid') >= SumSeq(current_bid)
           /\ \A p \in DOMAIN bid :
                bid'[p] # bid[p] /\ bid'[p] # PASS =>
                    /\ current_bid' = bid'[p]
                    /\ SumSeq(bid'[p]) > SumSeq(current_bid)
           /\ \A p \in DOMAIN bid :
                bid'[p] # bid[p] /\ bid'[p] = PASS => current_bid' = current_bid
      ]_vars

\* an auction in which two players have bid, one of them has been outbid and
\* a player has passed while a bid was in force
C27_Witness ==
    /\ InAuction
    /\ Cardinality(bidders) >= 2
    /\ current_bid # <<>>
    /\ \E p \in bidders :
         bid[p] # PASS /\ SumSeq(bid[p]) < SumSeq(current_bid)
    /\ \E p \in passed_players : bid[p] = PASS

\* C28: when a BidToWin auction is resolved the winner's committed bid is
\* the highest bid of the auction (both empty when nobody bid) and it is what
\* the winner pays; while the auction runs the player asked next never holds
\* the highest bid, and the holder of the highest bid has not passed.
C28_WinnerHoldsHighestBid ==
    /\ resolved.mode = "win" =>
         /\ resolved.bids[resolved.winner] = current_bid
         /\ BagOf(funds[resolved.winner]) (+) BagOf(current_bid)
                = BagOf(before.funds[resolved.winner])
         /\ bidders = {} <=> current_bid = <<>>
    /\ pc = "win" /\ current_bid # <<>> =>
         /\ \E p \in Elems(players) \ passed_players : bid[p] = current_bid
         /\ Cardinality(passed_players) < Len(players) - 1
                => bid[players[1]] # current_bid

\* a BidToWin auction won with a highest bid of two money cards that outbid
\* another player's bid
C28_Witness ==
    /\ resolved.mode = "win"
    /\ Len(current_bid) >= 2
    /\ resolved.bids[resolved.winner] = current_bid
    /\ Cardinality(bidders) >= 2
    /\ Len(funds[resolved.winner]) = Len(before.funds[resolved.winner]) - Len(current_bid)

\* ------------------------------------------------- the auctions terminate
\* AuctionCardDeck.shuffle, seen from the top: a pair of cards for each
\* succession of the two auction modes
LiveTops ==
    { << PasseCard(-5), LuxuryCard(1) >>, << LuxuryCard(1), PasseCard(-5) >>,
      << LuxuryCard(1), LuxuryCard(2) >>, << PasseCard(-5), FauxPasCard >> }

\* HighSociety.__init__ with one of these pairs on top of the deck
InitLive == Init /\ deck \in LiveTops

\* play_sample_game runs on one thread and nothing but the players' random
\* choices decides its next step: a step that can be taken is taken.
SpecLive == InitLive /\ [][Next]_vars /\ WF_vars(Next)

\* C29: every auction is resolved after finitely many decisions, whatever the
\* players choose: a BidToAvoid auction gets its pass, a BidToWin auction gets
\* the passes of all players but one, and both then hand the card over.
C29_AuctionsResolve ==
    InAuction ~>
        /\ resolved.mode # "none"
        /\ err = "none"
        /\ resolved.mode = "avoid" => resolved.passed # {}
        /\ resolved.mode = "win" => Cardinality(resolved.passed) = Len(players) - 1

\* a BidToAvoid auction that went round the ring until a bid left the next
\* player no choice but to pass
C29_Witness ==
    /\ resolved.mode = "avoid"
    /\ Cardinality(bidders) = Len(players) - 1
    /\ Len(players) >= 2
    /\ SumSeq(current_bid) >= total_money(before.funds[resolved.winner])

\* ------------------------------------------- the hand: more properties
\* C30: a hand built from the empty hand by win_card never holds a Faux Pas
\* card together with a Luxury card; a win_card call makes the hand one card
\* longer or one card shorter, and shorter exactly when a Faux Pas card meets
\* a Luxury card of the hand or a Luxury card meets a Faux Pas card of the hand.
C30_NoFauxPasWithLuxury ==
    /\ pc \in {"hand", "observed"} =>
          ~(OfKind(cards_won[1], {"Faux Pas"}) # {} /\ OfKind(cards_won[1], {"Luxury"}) # {})
    /\ call.op = "win_card" =>
          LET theft == \/ call.card.type = "Faux Pas" /\ OfKind(call.hand, {"Luxury"}) # {}
                       \/ call.card.type = "Luxury" /\ OfKind(call.hand, {"Faux Pas"}) # {}
          IN  Len(cards_won[1]) = Len(call.hand) + (IF theft THEN 0 - 1 ELSE 1)

\* a Faux Pas card won on a hand of three cards, two of them Luxury cards: the
\* hand shrinks to two cards and still holds a Luxury card, without the Faux Pas
C30_Witness ==
    /\ call.op = "win_card"
    /\ call.card.type = "Faux Pas"
    /\ Len(call.hand) = 3
    /\ Cardinality(OfKind(call.hand, {"Luxury"})) = 2
    /\ Len(cards_won[1]) = 2
    /\ OfKind(cards_won[1], {"Luxury"}) # {}
    /\ OfKind(cards_won[1], {"Faux Pas"}) = {}

====
